---------------------------- MODULE Spec2Model ----------------------------
(***************************************************************************)
(* Model of the USB audio speaker firmware (src/firmware/src/main.rs):     *)
(* the start-up code of main, the TIM2 capture interrupt, the single-slot  *)
(* FEEDBACK_SIGNAL, the two-block zero-copy USB_CHANNEL and the four tasks  *)
(* main spawns.  The tasks themselves, FEEDBACK_SIGNAL and                  *)
(* FEEDBACK_REFRESH_PERIOD live in the blus_fw library crate; they are      *)
(* modelled from the specification (sections 4.2 to 4.4).                   *)
(***************************************************************************)
EXTENDS Integers, Sequences, FiniteSets, TLC

(***************************************************************************)
(* Bounds of the model.                                                    *)
(***************************************************************************)
\* Width of the capture counter in the model (the hardware counter is 32 bit).
TickBits == 10
\* Number of capture (start-of-frame) events the hardware delivers.
MaxCaptures == 8
\* Number of inbound audio transfers the host sends.
MaxTransfers == 3
\* How far from 0 and from the top of the range the sampled tick values go.
EdgeSpan == 16
\* The largest refresh period the handler is compared with the protocol on.
MaxPeriod == 5

Modulus == 2 ^ TickBits

(***************************************************************************)
(* Program constants.                                                      *)
(***************************************************************************)
\* FEEDBACK_REFRESH_PERIOD.frame_count(): frames per feedback window.
REFRESH_PERIOD == 4
\* A pool of three sample blocks.
PoolOfThree == 2 + 1

\* [UsbSampleBlock; 2]
NumBlocks == 2

\* Ticks the counter advances between two start-of-frame pulses: a little
\* over three eighths of its range, so that it wraps within every window and
\* the capture that closes a window can lie below the one that opened it.
FrameTicks == Modulus \div 4 + Modulus \div 8 + 44
\* The capture sequence of the worked scenario of the specification.
CaptureScript == <<100, 205, 300, 400, 512>>

TaskNames == {"control_task", "streaming_task", "feedback_task", "usb_task"}
Blocks == 0 .. NumBlocks - 1
NoBlock == NumBlocks

\* Tick values the subtraction is tried on: both ends of the range and its middle.
TickSamples ==
  (0 .. EdgeSpan) \cup ((Modulus - 1 - EdgeSpan) .. (Modulus - 1))
    \cup {Modulus \div 2 - 1, Modulus \div 2}

VARIABLES
  \* configuration
  period,          \* FEEDBACK_REFRESH_PERIOD.frame_count()
  \* start-up code (main)
  mainPc,          \* position of main
  TIMER,           \* the global cell: "None" or "Some"
  unmasked,        \* NVIC: TIM2 interrupt unmasked
  spawned,         \* tasks spawned so far
  \* timer hardware
  running,         \* the timer has been started
  ccr,             \* capture register CCR1
  sr_ccif,         \* status register: capture flag of channel 1
  sr_tif,          \* status register: trigger interrupt flag
  nvicPending,     \* NVIC: TIM2 interrupt pending
  \* TIM2 interrupt handler
  isrPc,           \* position of the handler ("idle": not running)
  status,          \* the capture flag as read by timer.sr().read()
  rmw,             \* the capture flag as read by timer.sr().modify()
  LAST_TICKS,
  FRAME_COUNT,
  FEEDBACK_SIGNAL, \* sequence of pending values, each [value, seq]
  \* feedback_task
  feedbackPc,
  fbHeld,          \* the value await_next returned last, [value, seq]
  fbSent,          \* seq of the value forwarded to the feedback sink last
  \* streaming_task and USB_CHANNEL
  streamPc,
  rxTag,           \* the transfer streaming_task received last
  front, back, full,
  bufs,            \* contents of each sample block (the transfer it carries)
  prodHeld,        \* block the sender holds for writing (NoBlock: none)
  \* downstream consumer of USB_CHANNEL
  consHeld,        \* block the receiver holds for reading (NoBlock: none)
  \* USB class driver
  epOut,           \* an inbound transfer is ready
  epInFree,        \* the feedback endpoint accepts a packet
  ctrlPending,     \* a control-change notification is pending
  \* history
  nEvents,         \* capture events raised by the hardware
  nCaptured,       \* handler invocations that saw the capture flag set
  nPublished,      \* publishes to FEEDBACK_SIGNAL
  sumPublished,    \* sum of the published values, modulo Modulus
  firstTicks,      \* the capture value the handler read first
  proto,           \* the specified capture protocol, fed the same captures
  nReturned,       \* values returned by await_next
  nTransfers,      \* inbound transfers delivered by the host
  nAcquired,       \* acquire_for_write calls that returned
  nCommitted,      \* commits
  nRead,           \* acquire_for_read calls that returned
  nReleased        \* releases

cfgVars == <<period>>
mainVars == <<mainPc, TIMER, unmasked, spawned>>
hwVars == <<running, ccr, sr_ccif, sr_tif, nvicPending>>
isrVars == <<isrPc, status, rmw, LAST_TICKS, FRAME_COUNT>>
fbVars == <<feedbackPc, fbHeld, fbSent, nReturned>>
chanVars == <<front, back, full, bufs, prodHeld, consHeld>>
streamVars == <<streamPc, rxTag, nAcquired, nCommitted>>
recvVars == <<nRead, nReleased>>
usbVars == <<epOut, epInFree, ctrlPending, nTransfers>>
capVars == <<nEvents, nCaptured, nPublished, sumPublished, firstTicks, proto>>

vars == <<cfgVars, mainVars, hwVars, isrVars, FEEDBACK_SIGNAL, fbVars, chanVars,
          streamVars, recvVars, usbVars, capVars>>

(***************************************************************************)
(* Pure operations.                                                        *)
(***************************************************************************)
\* A wrapping subtraction that forgets the borrow.
WrappingSubNoBorrow(a, b) == IF a >= b THEN a - b ELSE b - a

\* u32::wrapping_sub at the model's width: subtract, borrowing from bit TickBits.
WrappingSub(a, b) == IF a >= b THEN a - b ELSE (a + Modulus) - b

\* Signal::signal that queues behind an unread value.
SignalAppend(sig, v) == Append(sig, v)

\* Signal::signal: the new value replaces whatever is pending.
SignalPublish(sig, v) == <<v>>

\* Signal::wait is ready when a value is pending.
SignalReady(sig) == sig # <<>>

\* Signal::wait that returns the value and leaves it pending.
SignalKeep(sig) == sig

\* Signal::wait returning: the pending state is cleared.
SignalTake(sig) == <<>>

\* The handler's test with > in place of >=.
WindowAfter(count) == count > period

\* The handler's test one frame early.
WindowEarly(count) == count >= period - 1

\* *FRAME_COUNT >= FEEDBACK_REFRESH_PERIOD.frame_count()
WindowComplete(count) == count >= period

\* The capture protocol as specified, on a state s = [last, count, n, value]
\* (n values published so far, the last of them value) and a capture t:
\* count the frame; when the count equals the period p, compute the delta,
\* publish it, store the capture, then reset the count.
ProtoStep(p, s, t) ==
  IF s.count + 1 = p
    THEN [last |-> t, count |-> 0, n |-> s.n + 1,
          value |-> WrappingSub(t, s.last)]
    ELSE [s EXCEPT !.count = s.count + 1]

(***************************************************************************)
(* Initial state: main has not run, statics hold their initialisers.       *)
(***************************************************************************)
InitChannel ==
  /\ front = 0 /\ back = 0 /\ full = FALSE
  /\ bufs = [i \in Blocks |-> 0]
  /\ prodHeld = NoBlock /\ consHeld = NoBlock

InitTasks ==
  /\ feedbackPc = "wait" /\ fbHeld = [value |-> 0, seq |-> 0] /\ fbSent = 0
  /\ nReturned = 0
  /\ streamPc = "read_packet" /\ rxTag = 0 /\ nAcquired = 0 /\ nCommitted = 0
  /\ nRead = 0 /\ nReleased = 0
  /\ epOut = FALSE /\ epInFree = TRUE /\ ctrlPending = FALSE /\ nTransfers = 0

InitProgram ==
  /\ mainPc = "init" /\ TIMER = "None" /\ unmasked = FALSE /\ spawned = {}
  /\ running = FALSE /\ ccr = 0 /\ sr_ccif = FALSE /\ sr_tif = FALSE
  /\ nvicPending = FALSE
  /\ isrPc = "idle" /\ status = FALSE /\ rmw = FALSE
  /\ LAST_TICKS = 0 /\ FRAME_COUNT = 0
  /\ FEEDBACK_SIGNAL = <<>>
  /\ nEvents = 0 /\ nCaptured = 0 /\ nPublished = 0
  /\ sumPublished = 0 /\ firstTicks = 0
  /\ proto = [last |-> 0, count |-> 0, n |-> 0, value |-> 0]
  /\ InitChannel
  /\ InitTasks

Init == InitProgram /\ period = REFRESH_PERIOD

\* The same start for every refresh period from 1 to MaxPeriod.
InitRefine == InitProgram /\ period \in 1 .. MaxPeriod

\* A core on which thread-mode code runs while the handler is active.
ThreadAlways == TRUE

\* Thread-mode code (main and the tasks) runs only while the handler does not.
ThreadMode == isrPc = "idle"

(***************************************************************************)
(* main, lines 30 to 177.                                                  *)
(***************************************************************************)
\* A start-up that unmasks the interrupt when it starts the timer, before the
\* hand-off.
main_timer_start_unmasked ==
  /\ ThreadMode /\ mainPc = "init"
  /\ running' = TRUE
  /\ sr_ccif' = FALSE /\ sr_tif' = FALSE
  /\ unmasked' = TRUE
  /\ mainPc' = "handoff"
  /\ UNCHANGED <<cfgVars, TIMER, spawned, ccr, nvicPending, isrVars,
                 FEEDBACK_SIGNAL, fbVars, chanVars, streamVars, recvVars,
                 usbVars, capVars>>

\* Lines 146-164: configure the timer for input capture and start it.
main_timer_start ==
  /\ ThreadMode /\ mainPc = "init"
  /\ running' = TRUE
  /\ sr_ccif' = FALSE /\ sr_tif' = FALSE
  /\ mainPc' = "handoff"
  /\ UNCHANGED <<cfgVars, TIMER, unmasked, spawned, ccr, nvicPending,
                 isrVars, FEEDBACK_SIGNAL, fbVars, chanVars, streamVars,
                 recvVars, usbVars, capVars>>

\* Line 166: TIMER.lock(|p| p.borrow_mut().replace(tim2)).
main_handoff ==
  /\ ThreadMode /\ mainPc = "handoff"
  /\ TIMER' = "Some"
  /\ mainPc' = "unmask"
  /\ UNCHANGED <<cfgVars, unmasked, spawned, hwVars, isrVars,
                 FEEDBACK_SIGNAL, fbVars, chanVars, streamVars, recvVars,
                 usbVars, capVars>>

\* Line 169: NVIC::unmask(interrupt::TIM2).
main_unmask ==
  /\ ThreadMode /\ mainPc = "unmask"
  /\ unmasked' = TRUE
  /\ mainPc' = "spawn_control"
  /\ UNCHANGED <<cfgVars, TIMER, spawned, hwVars, isrVars, FEEDBACK_SIGNAL,
                 fbVars, chanVars, streamVars, recvVars, usbVars, capVars>>

\* Lines 173-176: one spawn; main returns after the fourth.
main_spawn(at, task, next) ==
  /\ ThreadMode /\ mainPc = at
  /\ spawned' = spawned \cup {task}
  /\ mainPc' = next
  /\ UNCHANGED <<cfgVars, TIMER, unmasked, hwVars, isrVars, FEEDBACK_SIGNAL,
                 fbVars, chanVars, streamVars, recvVars, usbVars, capVars>>

main_spawn_control == main_spawn("spawn_control", "control_task", "spawn_streaming")
main_spawn_streaming == main_spawn("spawn_streaming", "streaming_task", "spawn_feedback")
\* A third spawn that spawns control_task a second time.
main_spawn_control_again == main_spawn("spawn_feedback", "control_task", "spawn_usb")
main_spawn_feedback == main_spawn("spawn_feedback", "feedback_task", "spawn_usb")
main_spawn_usb == main_spawn("spawn_usb", "usb_task", "done")

\* An executor that polls a task as soon as it is spawned.
RunsEarly(task) == ThreadMode /\ task \in spawned

\* A spawned task is polled by the executor once main has returned.
Runs(task) == ThreadMode /\ mainPc = "done" /\ task \in spawned

\* The positions of main that can panic, and where main stops when they do:
\* the peripheral claims of lines 66-68 and the four unwrap!(spawner.spawn(..)).
AbortAt ==
  [init |-> "abort_init",
   spawn_control |-> "abort_spawn_control",
   spawn_streaming |-> "abort_spawn_streaming",
   spawn_feedback |-> "abort_spawn_feedback",
   spawn_usb |-> "abort_spawn_usb"]
SpawnPcs == {"spawn_control", "spawn_streaming", "spawn_feedback", "spawn_usb"}
AbortPcs == {AbortAt[at] : at \in DOMAIN AbortAt}
Aborted == mainPc \in AbortPcs

\* A panic of main: the firmware stops where it is.
main_abort(at) ==
  /\ ThreadMode /\ mainPc = at
  /\ mainPc' = AbortAt[at]
  /\ UNCHANGED <<cfgVars, TIMER, unmasked, spawned, hwVars, isrVars,
                 FEEDBACK_SIGNAL, fbVars, chanVars, streamVars, recvVars,
                 usbVars, capVars>>

\* Lines 66-68: a peripheral claim fails, unwrap() panics.
main_claim_abort == main_abort("init")

\* Lines 173-176: a spawn returns an error, unwrap! panics.
main_spawn_abort == \E at \in SpawnPcs : main_abort(at)

(***************************************************************************)
(* The timer hardware: a start-of-frame pulse triggers a capture.          *)
(***************************************************************************)
Capture(v) ==
  /\ running
  /\ ccr' = v
  /\ sr_ccif' = TRUE /\ sr_tif' = TRUE
  /\ nvicPending' = TRUE
  /\ nEvents' = nEvents + 1
  /\ UNCHANGED <<cfgVars, running, mainVars, isrVars, FEEDBACK_SIGNAL,
                 fbVars, chanVars, streamVars, recvVars, usbVars, nCaptured,
                 nPublished, sumPublished, firstTicks, proto>>

\* The counter has advanced by FrameTicks since the last capture.
HwCapture ==
  /\ nEvents < MaxCaptures
  /\ Capture((ccr + FrameTicks) % Modulus)

\* The captures of the worked scenario.
HwCaptureScript ==
  /\ nEvents < Len(CaptureScript)
  /\ Capture(CaptureScript[nEvents + 1])

(***************************************************************************)
(* The TIM2 interrupt handler, lines 179 to 205.                           *)
(***************************************************************************)
\* Lines 184-188: enter, take the critical section, borrow the timer from the
\* cell (unwrap() panics on an empty cell), read the status register.  A
\* firmware that has panicked takes no interrupt.
TIM2_status ==
  /\ isrPc = "idle" /\ nvicPending /\ unmasked /\ ~Aborted
  /\ nvicPending' = FALSE
  /\ IF TIMER = "Some"
       THEN /\ status' = sr_ccif
            /\ isrPc' = "capture"
       ELSE /\ isrPc' = "panic"
            /\ UNCHANGED status
  /\ UNCHANGED <<cfgVars, running, ccr, sr_ccif, sr_tif, rmw, LAST_TICKS,
                 FRAME_COUNT, mainVars, FEEDBACK_SIGNAL, fbVars, chanVars,
                 streamVars, recvVars, usbVars, capVars>>

\* The capture step of a handler that stores every capture in LAST_TICKS,
\* not only the one that closes a window.
TIM2_capture_every ==
  /\ isrPc = "capture" /\ status
  /\ sr_ccif' = FALSE
  /\ nCaptured' = nCaptured + 1
  /\ firstTicks' = (IF nCaptured = 0 THEN ccr ELSE firstTicks)
  /\ proto' = ProtoStep(period, proto, ccr)
  /\ IF WindowComplete(FRAME_COUNT + 1)
       THEN /\ FRAME_COUNT' = 0
            /\ FEEDBACK_SIGNAL' =
                 SignalPublish(FEEDBACK_SIGNAL,
                               [value |-> WrappingSub(ccr, LAST_TICKS),
                                seq |-> nPublished + 1])
            /\ nPublished' = nPublished + 1
            /\ sumPublished' =
                 (sumPublished + WrappingSub(ccr, LAST_TICKS)) % Modulus
       ELSE /\ FRAME_COUNT' = FRAME_COUNT + 1
            /\ UNCHANGED <<FEEDBACK_SIGNAL, nPublished, sumPublished>>
  /\ LAST_TICKS' = ccr
  /\ isrPc' = "modify"
  /\ UNCHANGED <<cfgVars, running, ccr, sr_tif, nvicPending, status, rmw,
                 mainVars, fbVars, chanVars, streamVars, recvVars, usbVars,
                 nEvents>>

\* Lines 191-200 with the capture flag set: read CCR1 (which clears the flag),
\* count the frame, and publish when the window is complete.
TIM2_capture ==
  /\ isrPc = "capture" /\ status
  /\ sr_ccif' = FALSE
  /\ nCaptured' = nCaptured + 1
  /\ firstTicks' = (IF nCaptured = 0 THEN ccr ELSE firstTicks)
  /\ proto' = ProtoStep(period, proto, ccr)
  /\ IF WindowComplete(FRAME_COUNT + 1)
       THEN /\ FRAME_COUNT' = 0
            /\ FEEDBACK_SIGNAL' =
                 SignalPublish(FEEDBACK_SIGNAL,
                               [value |-> WrappingSub(ccr, LAST_TICKS),
                                seq |-> nPublished + 1])
            /\ LAST_TICKS' = ccr
            /\ nPublished' = nPublished + 1
            /\ sumPublished' =
                 (sumPublished + WrappingSub(ccr, LAST_TICKS)) % Modulus
       ELSE /\ FRAME_COUNT' = FRAME_COUNT + 1
            /\ UNCHANGED <<FEEDBACK_SIGNAL, LAST_TICKS, nPublished,
                           sumPublished>>
  /\ isrPc' = "modify"
  /\ UNCHANGED <<cfgVars, running, ccr, sr_tif, nvicPending, status, rmw,
                 mainVars, fbVars, chanVars, streamVars, recvVars, usbVars,
                 nEvents>>

\* Line 191 with the capture flag clear: nothing is read or counted.
TIM2_no_capture ==
  /\ isrPc = "capture" /\ ~status
  /\ isrPc' = "modify"
  /\ UNCHANGED <<cfgVars, hwVars, status, rmw, LAST_TICKS, FRAME_COUNT,
                 mainVars, FEEDBACK_SIGNAL, fbVars, chanVars, streamVars,
                 recvVars, usbVars, capVars>>

\* Line 203, first half of timer.sr().modify(..): read the status register.
TIM2_modify_read ==
  /\ isrPc = "modify"
  /\ rmw' = sr_ccif
  /\ isrPc' = "write"
  /\ UNCHANGED <<cfgVars, hwVars, status, LAST_TICKS, FRAME_COUNT, mainVars,
                 FEEDBACK_SIGNAL, fbVars, chanVars, streamVars, recvVars,
                 usbVars, capVars>>

\* The write-back of a handler that clears the capture flag where the code
\* clears the trigger flag.
TIM2_modify_write_capture_flag ==
  /\ isrPc = "write"
  /\ sr_ccif' = FALSE
  /\ nvicPending' = nvicPending
  /\ isrPc' = "idle"
  /\ UNCHANGED <<cfgVars, running, ccr, sr_tif, status, rmw, LAST_TICKS,
                 FRAME_COUNT, mainVars, FEEDBACK_SIGNAL, fbVars, chanVars,
                 streamVars, recvVars, usbVars, capVars>>

\* Line 203, second half: write the value back with the trigger flag cleared
\* (a status bit written as 0 is cleared, written as 1 is left), then return;
\* the interrupt is pending again if the capture flag is still set.
TIM2_modify_write ==
  /\ isrPc = "write"
  /\ sr_tif' = FALSE
  /\ sr_ccif' = (sr_ccif /\ rmw)
  /\ nvicPending' = (nvicPending \/ sr_ccif')
  /\ isrPc' = "idle"
  /\ UNCHANGED <<cfgVars, running, ccr, status, rmw, LAST_TICKS, FRAME_COUNT,
                 mainVars, FEEDBACK_SIGNAL, fbVars, chanVars, streamVars,
                 recvVars, usbVars, capVars>>


(***************************************************************************)
(* feedback_task: loop { await_next; forward to the feedback sink }.       *)
(***************************************************************************)
\* FEEDBACK_SIGNAL.wait() returns the pending value and clears the signal.
feedback_await_next ==
  /\ Runs("feedback_task") /\ feedbackPc = "wait"
  /\ SignalReady(FEEDBACK_SIGNAL)
  /\ fbHeld' = Head(FEEDBACK_SIGNAL)
  /\ FEEDBACK_SIGNAL' = SignalTake(FEEDBACK_SIGNAL)
  /\ nReturned' = nReturned + 1
  /\ feedbackPc' = "write_packet"
  /\ UNCHANGED <<cfgVars, fbSent, mainVars, hwVars, isrVars, chanVars,
                 streamVars, recvVars, usbVars, capVars>>

\* The value is handed to the class driver's feedback sink.
feedback_write_packet ==
  /\ Runs("feedback_task") /\ feedbackPc = "write_packet"
  /\ epInFree
  /\ epInFree' = FALSE
  /\ fbSent' = fbHeld.seq
  /\ feedbackPc' = "wait"
  /\ UNCHANGED <<cfgVars, fbHeld, nReturned, mainVars, hwVars, isrVars,
                 FEEDBACK_SIGNAL, chanVars, streamVars, recvVars, epOut,
                 ctrlPending, nTransfers, capVars>>

(***************************************************************************)
(* USB_CHANNEL: zerocopy_channel::Channel over the two sample blocks,      *)
(* lines 137-143, a ring of NumBlocks slots.                               *)
(***************************************************************************)
ChannelIncrement(i) == IF i + 1 = NumBlocks THEN 0 ELSE i + 1

\* Number of committed blocks not yet released.
ChannelLen == IF full THEN NumBlocks ELSE (back + NumBlocks - front) % NumBlocks

\* The committed blocks not yet released, oldest first.
CommittedSeq == [k \in 1 .. ChannelLen |-> (front + k - 1) % NumBlocks]
Committed == {CommittedSeq[k] : k \in 1 .. ChannelLen}

\* acquire_for_write that hands out the next slot whether or not it is free.
SendAlways == TRUE

\* acquire_for_write returns when a block is free.
SendReady == ~full

\* acquire_for_read returns when a block is committed.
ReceiveReady == ChannelLen > 0

\* acquire_for_read that hands out the newest committed block.
ReceiveNewest == CommittedSeq[ChannelLen]

\* acquire_for_read hands out the oldest committed block.
ReceiveIndex == front

(***************************************************************************)
(* streaming_task: loop { receive a transfer; acquire_for_write; fill;     *)
(* commit }.                                                               *)
(***************************************************************************)
stream_read_packet ==
  /\ Runs("streaming_task") /\ streamPc = "read_packet"
  /\ epOut
  /\ epOut' = FALSE
  /\ rxTag' = nTransfers
  /\ streamPc' = "send"
  /\ UNCHANGED <<cfgVars, nAcquired, nCommitted, mainVars, hwVars, isrVars,
                 FEEDBACK_SIGNAL, fbVars, chanVars, recvVars, epInFree,
                 ctrlPending, nTransfers, capVars>>

\* usb_sender.send().await
stream_acquire ==
  /\ Runs("streaming_task") /\ streamPc = "send"
  /\ SendReady
  /\ prodHeld' = back
  /\ nAcquired' = nAcquired + 1
  /\ streamPc' = "send_done"
  /\ UNCHANGED <<cfgVars, rxTag, nCommitted, front, back, full, bufs,
                 consHeld, mainVars, hwVars, isrVars, FEEDBACK_SIGNAL,
                 fbVars, recvVars, usbVars, capVars>>

\* The block is filled with the transfer; usb_sender.send_done().
stream_commit ==
  /\ Runs("streaming_task") /\ streamPc = "send_done"
  /\ bufs' = [bufs EXCEPT ![prodHeld] = rxTag]
  /\ back' = ChannelIncrement(back)
  /\ full' = (back' = front)
  /\ prodHeld' = NoBlock
  /\ nCommitted' = nCommitted + 1
  /\ streamPc' = "read_packet"
  /\ UNCHANGED <<cfgVars, rxTag, nAcquired, front, consHeld, mainVars,
                 hwVars, isrVars, FEEDBACK_SIGNAL, fbVars, recvVars, usbVars,
                 capVars>>

(***************************************************************************)
(* The downstream consumer of USB_CHANNEL.  main binds the receiver half   *)
(* to _usb_receiver (line 143) and hands it to no task: these two steps    *)
(* are part of SpecDownstream only.                                        *)
(***************************************************************************)
\* acquire_for_read
recv_acquire ==
  /\ ThreadMode /\ mainPc = "done"
  /\ consHeld = NoBlock
  /\ ReceiveReady
  /\ consHeld' = ReceiveIndex
  /\ nRead' = nRead + 1
  /\ UNCHANGED <<cfgVars, nReleased, front, back, full, bufs, prodHeld,
                 mainVars, hwVars, isrVars, FEEDBACK_SIGNAL, fbVars,
                 streamVars, usbVars, capVars>>

\* release
recv_release ==
  /\ ThreadMode /\ mainPc = "done"
  /\ consHeld # NoBlock
  /\ front' = ChannelIncrement(front)
  /\ full' = FALSE
  /\ consHeld' = NoBlock
  /\ nReleased' = nReleased + 1
  /\ UNCHANGED <<cfgVars, nRead, back, bufs, prodHeld, mainVars, hwVars,
                 isrVars, FEEDBACK_SIGNAL, fbVars, streamVars, usbVars,
                 capVars>>

(***************************************************************************)
(* usb_task advances the class driver; control_task drains its             *)
(* control-change notifications.                                           *)
(***************************************************************************)
usb_task ==
  /\ Runs("usb_task")
  /\ \/ /\ ~epOut /\ nTransfers < MaxTransfers
        /\ epOut' = TRUE /\ nTransfers' = nTransfers + 1
        /\ UNCHANGED <<epInFree, ctrlPending>>
     \/ /\ ~epInFree
        /\ epInFree' = TRUE
        /\ UNCHANGED <<epOut, ctrlPending, nTransfers>>
     \/ /\ ~ctrlPending
        /\ ctrlPending' = TRUE
        /\ UNCHANGED <<epOut, epInFree, nTransfers>>
  /\ UNCHANGED <<cfgVars, mainVars, hwVars, isrVars, FEEDBACK_SIGNAL, fbVars,
                 chanVars, streamVars, recvVars, capVars>>

control_task ==
  /\ Runs("control_task")
  /\ ctrlPending
  /\ ctrlPending' = FALSE
  /\ UNCHANGED <<cfgVars, epOut, epInFree, nTransfers, mainVars, hwVars,
                 isrVars, FEEDBACK_SIGNAL, fbVars, chanVars, streamVars,
                 recvVars, capVars>>

\* The step of usb_task that completes the transfer on the feedback
\* endpoint: the host polls the endpoint in every refresh period.
usb_in_complete == usb_task /\ ~epInFree /\ epInFree'

(***************************************************************************)
(* Specifications.                                                         *)
(***************************************************************************)
Startup ==
  \/ main_timer_start
  \/ main_handoff
  \/ main_unmask
  \/ main_spawn_control
  \/ main_spawn_streaming
  \/ main_spawn_feedback
  \/ main_spawn_usb

Isr ==
  \/ TIM2_status
  \/ TIM2_capture
  \/ TIM2_no_capture
  \/ TIM2_modify_read
  \/ TIM2_modify_write

Tasks ==
  \/ control_task
  \/ stream_read_packet
  \/ stream_acquire
  \/ stream_commit
  \/ feedback_await_next
  \/ feedback_write_packet
  \/ usb_task

Consumer ==
  \/ recv_acquire
  \/ recv_release

\* The firmware as main wires it.
Next == Startup \/ HwCapture \/ Isr \/ Tasks
Spec == Init /\ [][Next]_vars

\* The firmware with start-up failures: a peripheral claim or a spawn can fail.
StartupFaults ==
  \/ main_claim_abort
  \/ main_spawn_abort
NextFaults == Next \/ StartupFaults
SpecFaults == Init /\ [][NextFaults]_vars

\* The firmware with a downstream consumer on the receiver half.
NextDownstream == Startup \/ HwCapture \/ Isr \/ Tasks \/ Consumer
SpecDownstream == Init /\ [][NextDownstream]_vars

\* Start-up, captures and the handler, for every refresh period up to MaxPeriod.
NextRefine == Startup \/ HwCapture \/ Isr
SpecRefine == InitRefine /\ [][NextRefine]_vars

\* The firmware fed the capture sequence of the worked scenario.
NextScenario == Startup \/ HwCaptureScript \/ Isr \/ Tasks
SpecScenario == Init /\ [][NextScenario]_vars

\* The firmware under the scheduling the hardware and the executor give: the
\* handler runs to completion once entered, a pending interrupt is taken, and
\* the executor polls every task that is ready.
FairSpec ==
  /\ Spec
  /\ WF_vars(Startup)
  /\ WF_vars(Isr)
  /\ WF_vars(control_task)
  /\ WF_vars(stream_read_packet)
  /\ WF_vars(stream_acquire)
  /\ WF_vars(stream_commit)
  /\ WF_vars(feedback_await_next)
  /\ WF_vars(feedback_write_packet)
  /\ WF_vars(usb_task)

\* The feedback path alone, without streaming_task (which shares no state
\* with it), under the same scheduling; the host polls the feedback endpoint.
NextFeedback ==
  \/ Startup
  \/ HwCapture
  \/ Isr
  \/ control_task
  \/ feedback_await_next
  \/ feedback_write_packet
  \/ usb_task
FairFeedback ==
  /\ Init /\ [][NextFeedback]_vars
  /\ WF_vars(Startup)
  /\ WF_vars(Isr)
  /\ WF_vars(control_task)
  /\ WF_vars(feedback_await_next)
  /\ WF_vars(feedback_write_packet)
  /\ WF_vars(usb_task)
  /\ WF_vars(usb_in_complete)

\* One handler invocation that closes a window, for every sampled pair of
\* LAST_TICKS and capture value: start-up is over, a capture is pending and
\* REFRESH_PERIOD - 1 frames have been counted since the last publish.
InitWrap ==
  /\ mainPc = "done" /\ TIMER = "Some" /\ unmasked = TRUE /\ spawned = TaskNames
  /\ running = TRUE /\ sr_ccif = TRUE /\ sr_tif = TRUE /\ nvicPending = TRUE
  /\ ccr \in TickSamples
  /\ LAST_TICKS \in TickSamples
  /\ FRAME_COUNT = REFRESH_PERIOD - 1
  /\ isrPc = "idle" /\ status = FALSE /\ rmw = FALSE
  /\ FEEDBACK_SIGNAL = <<>>
  /\ nEvents = 2 * REFRESH_PERIOD /\ nCaptured = 2 * REFRESH_PERIOD - 1
  /\ nPublished = 1
  /\ period = REFRESH_PERIOD
  /\ sumPublished = LAST_TICKS /\ firstTicks = 0
  /\ proto = [last |-> LAST_TICKS, count |-> FRAME_COUNT, n |-> 1,
              value |-> LAST_TICKS]
  /\ InitChannel
  /\ InitTasks

NextWrap ==
  \/ TIM2_status
  \/ TIM2_capture
  \/ TIM2_modify_read
  \/ TIM2_modify_write
SpecWrap == InitWrap /\ [][NextWrap]_vars

(***************************************************************************)
(* Properties.                                                             *)
(***************************************************************************)
\* A step of the handler that publishes to FEEDBACK_SIGNAL.
Publishes == nPublished' = nPublished + 1

\* A step in which await_next returns.
Returns == nReturned' = nReturned + 1

\* The value published last: pending, or held by feedback_task.
LastValue ==
  IF FEEDBACK_SIGNAL # <<>> THEN Head(FEEDBACK_SIGNAL).value ELSE fbHeld.value

\* C1: FRAME_COUNT stays in 0 .. REFRESH_PERIOD - 1 in every state, and it is
\* 0 in the state that follows every publish.
C1_FrameCountInRange ==
  /\ [](FRAME_COUNT \in 0 .. REFRESH_PERIOD - 1)
  /\ [][Publishes => FRAME_COUNT' = 0]_vars

\* The handler has just closed a window: it published and reset the count.
C1_Witness ==
  /\ isrPc = "modify" /\ status
  /\ nPublished >= 1 /\ FRAME_COUNT = 0

\* C2 (as claimed): with REFRESH_PERIOD = 4 and the captures 100, 205, 300,
\* 400, 512 each handled by its own invocation, nothing is published on
\* events 1 to 3, the 4th publishes exactly one value, 300, and after the 5th
\* LAST_TICKS = 400, FRAME_COUNT = 1 and still one value has been published.
C2_Original ==
  /\ REFRESH_PERIOD = 4
  /\ nCaptured < 4 => nPublished = 0 /\ FEEDBACK_SIGNAL = <<>>
  /\ nCaptured = 4 /\ nEvents = 4 => nPublished = 1 /\ LastValue = 300
  /\ nCaptured = 5 /\ nEvents = 5 =>
       LAST_TICKS = 400 /\ FRAME_COUNT = 1 /\ nPublished = 1

\* C2 (amended): as claimed, except that the value published on the 4th event
\* is 400 = 400 - 0: LAST_TICKS is 0 at start-up and the first capture does
\* not set it.
C2_Scenario ==
  /\ REFRESH_PERIOD = 4
  /\ nCaptured < 4 => nPublished = 0 /\ FEEDBACK_SIGNAL = <<>>
  /\ nCaptured = 4 /\ nEvents = 4 => nPublished = 1 /\ LastValue = 400
  /\ nCaptured = 5 /\ nEvents = 5 =>
       LAST_TICKS = 400 /\ FRAME_COUNT = 1 /\ nPublished = 1 /\ LastValue = 400

\* All five captures of the scenario have been handled, one invocation each.
C2_Witness ==
  /\ nCaptured = 5 /\ nEvents = 5 /\ isrPc = "idle"
  /\ ccr = 512 /\ nPublished = 1

\* C3: the number of publishes is the number of invocations that saw the
\* capture flag, divided by REFRESH_PERIOD and rounded down; FRAME_COUNT is
\* the remainder, the captures counted since the last publish.
C3_PublishEveryPeriod ==
  /\ nPublished = nCaptured \div REFRESH_PERIOD
  /\ FRAME_COUNT = nCaptured % REFRESH_PERIOD

\* Two full windows have been counted and published.
C3_Witness == nCaptured = 2 * REFRESH_PERIOD /\ nPublished = 2

\* C4: the value the handler publishes from capture t1 and LAST_TICKS t0 is
\* (t1 - t0) mod 2^TickBits, also when t1 < t0 (LAST_TICKS 16 below the top of
\* the range and capture 16 give 32), and the publishing step is enabled
\* whatever the two values are.
C4_WrappingDelta ==
  /\ [][Publishes =>
          /\ Head(FEEDBACK_SIGNAL').value = (ccr - LAST_TICKS) % Modulus
          /\ (LAST_TICKS = Modulus - 16 /\ ccr = 16
                => Head(FEEDBACK_SIGNAL').value = 32)]_vars
  /\ [](isrPc = "capture" /\ status => ENABLED TIM2_capture)

\* The handler has published 32 for a capture of 16: the counter wrapped.
C4_Witness ==
  /\ isrPc = "modify" /\ status /\ FEEDBACK_SIGNAL # <<>>
  /\ LAST_TICKS = 16 /\ Head(FEEDBACK_SIGNAL).value = 32

\* C5: FEEDBACK_SIGNAL never holds more than one pending value, the
\* publishing step is enabled whatever is pending, and a value await_next
\* returns is the one published last (so no overwritten value is returned).
C5_NewestValueWins ==
  /\ [](Len(FEEDBACK_SIGNAL) <= 1)
  /\ [](isrPc = "capture" /\ status => ENABLED TIM2_capture)
  /\ [][Returns => fbHeld'.seq = nPublished]_vars

\* The first await_next returned the second publish: the first was overwritten.
C5_Witness == nReturned = 1 /\ fbHeld.seq = 2 /\ nPublished = 2

\* C6: await_next returns only when a value is pending and leaves none
\* pending; every value returned is a later publish than the one returned
\* before, and no more values are returned than were published.
C6_ReturnedAtMostOnce ==
  /\ [](nReturned <= nPublished)
  /\ [][Returns =>
          /\ FEEDBACK_SIGNAL # <<>>
          /\ FEEDBACK_SIGNAL' = <<>>
          /\ fbHeld'.seq > fbHeld.seq]_vars

\* Two publishes, each returned by its own await_next.
C6_Witness == nPublished = 2 /\ nReturned = 2 /\ fbHeld.seq = 2

\* The four states of a sample block.
InProducer == {i \in Blocks : prodHeld = i}
InConsumer == {i \in Blocks : consHeld = i}
InFlight == {i \in Committed : consHeld # i}
Free == {i \in Blocks : i \notin Committed /\ prodHeld # i /\ consHeld # i}

\* C7: the pool has exactly 2 blocks, each free, in the producer, in the
\* consumer or in flight and in one of these only; at most 2 are outstanding
\* and no block is held by the producer and the consumer at once.
C7_PoolPartition ==
  /\ Cardinality(Blocks) = 2
  /\ InProducer \cap InConsumer = {}
  /\ InProducer \cap InFlight = {}
  /\ InConsumer \subseteq Committed
  /\ Cardinality(InProducer) + Cardinality(InConsumer)
       + Cardinality(InFlight) + Cardinality(Free) = 2
  /\ Cardinality(Blocks \ Free) <= 2

\* The producer fills one block while the consumer reads the other.
C7_Witness ==
  /\ prodHeld # NoBlock /\ consHeld # NoBlock
  /\ InFlight = {} /\ Free = {}

\* C8: with two blocks committed and none released, acquire_for_write is not
\* enabled; at most 2 more acquires have returned than releases have occurred;
\* the third acquire returns the block released first; and the block an
\* acquire returns is never one that is committed and not released.
C8_Backpressure ==
  /\ nCommitted = 2 /\ nReleased = 0 /\ streamPc = "send"
       => ~ENABLED stream_acquire
  /\ nAcquired <= nReleased + 2
  /\ nAcquired = 3 /\ prodHeld # NoBlock => nReleased >= 1 /\ prodHeld = 0
  /\ prodHeld # NoBlock => prodHeld \notin Committed

\* The third acquire has returned, after the release of the first block and
\* while the second is still committed.
C8_Witness ==
  /\ nAcquired = 3 /\ nReleased = 1 /\ prodHeld = 0
  /\ Committed = {1}

\* C9: the k-th commit carries the k-th transfer, and the k-th
\* acquire_for_read obtains the block of the k-th commit: reads follow the
\* commits in order, none skipped, none twice, and never run ahead of them.
C9_FifoHandoff ==
  /\ streamPc # "read_packet" => rxTag = nCommitted + 1
  /\ nRead <= nCommitted
  /\ consHeld # NoBlock => bufs[consHeld] = nRead
  /\ nRead = nReleased + (IF consHeld # NoBlock THEN 1 ELSE 0)

\* The consumer reads the second commit while the third is waiting.
C9_Witness ==
  /\ consHeld # NoBlock /\ nRead = 2 /\ nCommitted = 3
  /\ full

\* streaming_task is suspended in acquire_for_write.
StreamSuspended == streamPc = "send" /\ full

\* C10 (as claimed): whenever streaming_task is suspended in
\* acquire_for_write, it eventually resumes.
C10_NoStall == StreamSuspended ~> ~StreamSuspended

\* A step in which the handler returns.
IsrReturns == isrPc = "write" /\ isrPc' = "idle"

NoTaskPolled ==
  /\ feedbackPc = "wait" /\ nReturned = 0
  /\ streamPc = "read_packet" /\ nTransfers = 0
  /\ ~ctrlPending /\ epInFree

\* C12 (as claimed): whenever main has aborted, at a peripheral claim or at
\* an unwrapped spawn, no task has been spawned.
C12_AbortBeforeSpawn == Aborted => spawned = {}

\* C12 (amended): an abort at a peripheral claim or at the first spawn finds
\* no task spawned; an abort at a later spawn finds exactly the tasks of the
\* earlier spawns; and in every abort no spawned task has been polled.
C12_AbortBeforePoll ==
  /\ mainPc \in {"abort_init", "abort_spawn_control"} => spawned = {}
  /\ mainPc = "abort_spawn_streaming" => spawned = {"control_task"}
  /\ mainPc = "abort_spawn_feedback" =>
       spawned = {"control_task", "streaming_task"}
  /\ mainPc = "abort_spawn_usb" =>
       spawned = {"control_task", "streaming_task", "feedback_task"}
  /\ Aborted => NoTaskPolled

\* The last spawn has failed: three tasks are spawned, none has run, and the
\* handler has published a value that nobody will fetch.
C12_Witness ==
  /\ mainPc = "abort_spawn_usb" /\ "feedback_task" \in spawned
  /\ nPublished >= 1 /\ isrPc = "idle"

\* C13 (as claimed): no capture flag raised by the hardware is cleared
\* without that capture being counted: every step that clears the capture
\* flag is a step of the handler that counts a frame.
C13_NoLostCapture == [][sr_ccif /\ ~sr_ccif' => nCaptured' = nCaptured + 1]_vars

\* C16: the handler runs as one step with respect to thread-mode code: while
\* it is active no step of main, of a task or of the class driver happens;
\* LAST_TICKS and FRAME_COUNT are written by the handler's capture step and
\* by nothing else; and main's hand-off of the timer is a single step taken
\* outside the handler, before any task exists that could be polled.
C16_HandlerAtomic ==
  /\ [][isrPc # "idle" =>
         UNCHANGED <<mainVars, fbVars, chanVars, streamVars, recvVars,
                     usbVars>>]_vars
  /\ [][<<LAST_TICKS, FRAME_COUNT>>' # <<LAST_TICKS, FRAME_COUNT>> =>
         isrPc = "capture" /\ isrPc' = "modify"]_vars
  /\ [][TIMER' # TIMER =>
         /\ mainPc = "handoff" /\ mainPc' = "unmask"
         /\ isrPc = "idle" /\ isrPc' = "idle"
         /\ spawned = {} /\ NoTaskPolled]_vars

\* The handler has pre-empted streaming_task between acquire and commit and
\* feedback_task between await_next and the write to the sink.
C16_Witness ==
  /\ isrPc = "capture" /\ status
  /\ streamPc = "send_done" /\ feedbackPc = "write_packet"

\* A step of a handler invocation that read the capture flag clear.
NoCaptureStep == isrPc \in {"capture", "modify", "write"} /\ ~status /\ isrPc' # isrPc

\* A step of a handler invocation that counts a frame without closing a window.
CountOnlyStep ==
  /\ isrPc = "capture" /\ status /\ isrPc' = "modify"
  /\ FRAME_COUNT + 1 < REFRESH_PERIOD

\* C18 (as claimed): a handler invocation that read the capture flag clear
\* leaves FRAME_COUNT, LAST_TICKS and FEEDBACK_SIGNAL as they were and
\* clears nothing but the trigger flag; an invocation that counts a frame
\* below the period adds exactly one to FRAME_COUNT and leaves LAST_TICKS
\* and FEEDBACK_SIGNAL as they were.
C18_FrameEffect ==
  /\ [][NoCaptureStep =>
         UNCHANGED <<FRAME_COUNT, LAST_TICKS, FEEDBACK_SIGNAL, sr_ccif>>]_vars
  /\ [][CountOnlyStep =>
         /\ FRAME_COUNT' = FRAME_COUNT + 1
         /\ UNCHANGED <<LAST_TICKS, FEEDBACK_SIGNAL>>]_vars

\* C15: the TIMER cell changes once, from empty to holding the handle, in
\* main's hand-off and before the interrupt is unmasked; from the hand-off on
\* it holds the handle; whenever the interrupt is unmasked or the handler is
\* active the cell holds the handle, so the handler's unwrap() never panics;
\* and no step but the hand-off touches the cell.
C15_TimerCell ==
  /\ [][TIMER' # TIMER =>
         /\ TIMER = "None" /\ TIMER' = "Some"
         /\ mainPc = "handoff" /\ mainPc' = "unmask"
         /\ ~unmasked /\ ~unmasked']_vars
  /\ [](mainPc \notin {"init", "handoff"} => TIMER = "Some")
  /\ [](unmasked => TIMER = "Some")
  /\ [](isrPc # "idle" => TIMER = "Some" /\ isrPc # "panic")

\* The handler runs right after the unmask, before the first spawn, and
\* finds the handle in the cell.
C15_Witness ==
  /\ isrPc = "capture" /\ mainPc = "spawn_control"
  /\ TIMER = "Some" /\ unmasked

\* Every publish carries the capture minus LAST_TICKS, modulo Modulus, and
\* stores the capture in LAST_TICKS; no other step changes LAST_TICKS.
PublishDelta ==
  /\ [][Publishes =>
         /\ Head(FEEDBACK_SIGNAL').value = WrappingSub(ccr, LAST_TICKS)
         /\ LAST_TICKS' = ccr]_vars
  /\ [][LAST_TICKS' # LAST_TICKS => Publishes]_vars

\* C14 (as claimed): every published value is the capture minus LAST_TICKS,
\* LAST_TICKS changes only in a publish and then holds that capture, and the
\* published values add up, modulo Modulus, to the latest published capture
\* minus the first capture, which opened the first window.
C14_SumFromFirstCapture ==
  /\ PublishDelta
  /\ [](nPublished >= 1 => sumPublished = WrappingSub(LAST_TICKS, firstTicks))

\* C14 (amended): every published value is the capture minus LAST_TICKS,
\* LAST_TICKS is 0 until the first publish, changes only in a publish and
\* then holds that capture, and the published values add up, modulo Modulus,
\* to the latest published capture minus 0, the value LAST_TICKS starts with.
C14_SumFromZero ==
  /\ PublishDelta
  /\ [](nPublished = 0 => LAST_TICKS = 0 /\ sumPublished = 0)
  /\ [](sumPublished = WrappingSub(LAST_TICKS, 0))

\* Two windows are closed, the second capture published is below the first
\* (the counter has wrapped), and the first capture read was not 0.
C14_Witness ==
  /\ nPublished = 2 /\ isrPc = "modify"
  /\ firstTicks > 0 /\ LAST_TICKS > 0
  /\ Head(FEEDBACK_SIGNAL).value > LAST_TICKS

\* C19: for every refresh period from 1 up, the handler (test >=; reset the
\* count, publish, store the capture) and the specified protocol (test =;
\* compute the delta, publish, store the capture, reset the count), fed the
\* same captures, have published the same number of values, the same value
\* last, and hold the same LAST_TICKS and FRAME_COUNT, in every state.
C19_SameAsProtocol ==
  /\ proto.last = LAST_TICKS
  /\ proto.count = FRAME_COUNT
  /\ proto.n = nPublished
  /\ nPublished >= 1 => proto.value = LastValue

\* With a period of 1 every capture closes a window: three invocations have
\* returned and three values are published, the last across a wrap.
C19_Witness ==
  /\ period = 1 /\ isrPc = "idle" /\ ~nvicPending
  /\ nCaptured = 3 /\ nPublished = 3
  /\ LastValue > LAST_TICKS

=============================================================================
